---- MODULE Spec2Model ----
(***************************************************************************)
(* A state-machine model of pushhosts.py: main() authenticates, checks the *)
(* tenant, resolves the staged HOSTS file by hash, enumerates the Windows  *)
(* hosts page by page, opens one RTR batch session and issues a fixed      *)
(* sequence of batch commands, exiting at the first non-201 status.        *)
(*                                                                         *)
(* Strings that the program passes through str.lower() are sequences of    *)
(* one-character strings, so that lower() is computed character by         *)
(* character.  The vendor API is the environment: every response is a      *)
(* nondeterministic choice from a small set.                               *)
(***************************************************************************)
EXTENDS Integers, Sequences, FiniteSets, TLC

VARIABLES
    args_scope,      \* args.scope
    args_scope_id,   \* args.scope_id
    args_hosts_file, \* args.hosts_file
    current_cid,     \* main: current_cid
    put_files,       \* main: put_files
    found,           \* main: found
    filename,        \* main: filename (<<>> while unbound)
    offset,          \* main: offset
    hosts_all,       \* main: hosts_all, as the list of the page chunks appended
    total,           \* response['body']['meta']['pagination']['total'] of the last page
    batch_id,        \* main: batch_id
    pc,              \* position of main()
    exit_msg,        \* which SystemExit ended the run ("" while running)
    requests,        \* number of page queries sent to the API (saturates at MaxRequests)
    api_exact,       \* every page so far was as full as the remaining count allows
    inits,           \* number of batch_init_sessions calls
    init_call,       \* keyword arguments of the batch_init_sessions call
    cmds             \* the batch command calls made, in order, with their status

vars == <<args_scope, args_scope_id, args_hosts_file, current_cid, put_files,
          found, filename, offset, hosts_all, total, batch_id, pc, exit_msg,
          requests, api_exact, inits, init_call, cmds>>

----------------------------------------------------------------------------
(* Bounds of the model *)

MaxPutFiles == 2
MaxTotalPages == 1

(* Program constants *)

batch_size == 5000
STATUS_CREATED == 201

MaxRequests == MaxTotalPages + 2

----------------------------------------------------------------------------
(* Strings *)

LowerChar(c) ==
    CASE c = "A" -> "a"
      [] c = "B" -> "b"
      [] c = "C" -> "c"
      [] c = "D" -> "d"
      [] c = "H" -> "h"
      [] c = "O" -> "o"
      [] c = "S" -> "s"
      [] c = "T" -> "t"
      [] OTHER -> c

lower(s) == [i \in 1..Len(s) |-> LowerChar(s[i])]

SCOPE_CID == <<"c", "i", "d">>
SCOPE_HOSTGROUP == <<"h", "o", "s", "t", "g", "r", "o", "u", "p">>
HOSTS == <<"h", "o", "s", "t", "s">>

Min(a, b) == IF a <= b THEN a ELSE b
Max(a, b) == IF a >= b THEN a ELSE b
CeilDiv(a, b) == (a + b - 1) \div b

----------------------------------------------------------------------------
(* The environment: command line and API responses *)

ScopeChoices == {SCOPE_CID, SCOPE_HOSTGROUP}
ScopeIds == {<<"a", "b">>, <<"c", "d">>}
\* get_sensor_installer_ccid(): the tenant id followed by a 3-character checksum
Ccids == {<<"A", "B", "-", "0", "1">>}
HostsFileArgs == {<<"a", "B">>, <<"C", "D">>}

StagedFiles ==
    { [name |-> HOSTS,                      sha256 |-> <<"a", "b">>],
      [name |-> <<"H", "O", "S", "T", "S">>, sha256 |-> <<"A", "b">>],
      [name |-> <<"n", "e", "w">>,          sha256 |-> <<"A", "B">>],
      [name |-> <<"o", "l", "d">>,          sha256 |-> <<"c", "d">>] }

PutFileLists ==
    { s \in UNION { [1..n -> StagedFiles] : n \in 0..MaxPutFiles } :
        \A i, j \in 1..Len(s) : i # j => s[i] # s[j] }

Offsets == {<<>>, <<"o1">>}
\* The inventory sizes: empty, one host, MaxTotalPages full pages, one more
Totals == {0, 1, MaxTotalPages * batch_size, MaxTotalPages * batch_size + 1}
BatchIds == {<<>>, <<"b1">>, <<"b2">>}
StatusCodes == {200, STATUS_CREATED, 500}

RECURSIVE HostsLen(_)
HostsLen(h) == IF h = <<>> THEN 0 ELSE Head(h) + HostsLen(Tail(h))

\* The API reports the same total on every page of one enumeration
PageTotals == IF requests = 0 THEN Totals ELSE {total}

\* A page holds at most `limit` identifiers: none, a short page, a full page,
\* or what remains of the total
PageSizes(t, have) ==
    {0, batch_size - 1, batch_size}
        \cup (IF t > have THEN {Min(batch_size, t - have)} ELSE {})

----------------------------------------------------------------------------
Init ==
    /\ args_scope \in ScopeChoices
    /\ args_scope_id \in ScopeIds
    /\ args_hosts_file \in HostsFileArgs
    /\ current_cid = <<>>
    /\ put_files = <<>>
    /\ found = FALSE
    /\ filename = <<>>
    /\ offset = <<>>
    /\ hosts_all = <<>>
    /\ total = 0
    /\ batch_id = <<>>
    /\ pc = "check_cid"
    /\ exit_msg = ""
    /\ requests = 0
    /\ api_exact = TRUE
    /\ inits = 0
    /\ init_call = [host_ids |-> <<>>, queue_offline |-> FALSE]
    /\ cmds = <<>>

Fatal(msg) ==
    /\ pc' = "fatal"
    /\ exit_msg' = msg

Goto(next) ==
    /\ pc' = next
    /\ exit_msg' = exit_msg

----------------------------------------------------------------------------
(* Tenant check, lines 104-109 *)

CidMismatchAnyScope(scope, scope_id, cid) == lower(scope_id) # lower(cid)

CidMismatch(scope, scope_id, cid) ==
    lower(scope) = SCOPE_CID /\ lower(scope_id) # lower(cid)

CheckCid ==
    /\ pc = "check_cid"
    /\ \E ccid \in Ccids :
        /\ current_cid' = SubSeq(ccid, 1, Len(ccid) - 3)
        /\ IF CidMismatch(args_scope, args_scope_id, current_cid')
             THEN Fatal("cid_mismatch")
             ELSE Goto("resolve")
    /\ UNCHANGED <<args_scope, args_scope_id, args_hosts_file, put_files, found,
                   filename, offset, hosts_all, total, batch_id, requests,
                   api_exact, inits, init_call, cmds>>

----------------------------------------------------------------------------
(* File resolution, lines 113-127 *)

HashMatches(put_file, hosts_file) == lower(put_file.sha256) = lower(hosts_file)

ScanStepAlwaysAssign(acc, put_file, hosts_file) ==
    [found |-> acc.found \/ HashMatches(put_file, hosts_file),
     filename |-> put_file.name]

\* One iteration of `for put_file in put_files`
ScanStep(acc, put_file, hosts_file) ==
    IF HashMatches(put_file, hosts_file)
      THEN [found |-> TRUE, filename |-> put_file.name]
      ELSE acc

RECURSIVE ScanFrom(_, _, _, _)
ScanFrom(pf, i, acc, hosts_file) ==
    IF i > Len(pf) THEN acc
    ELSE ScanFrom(pf, i + 1, ScanStep(acc, pf[i], hosts_file), hosts_file)

ScanPutFiles(pf, hosts_file) ==
    ScanFrom(pf, 1, [found |-> FALSE, filename |-> <<>>], hosts_file)

AfterResolveNoCheck(f) == Goto("enum")

AfterResolve(f) ==
    IF f THEN Goto("enum") ELSE Fatal("hash_not_found")

ResolveFile ==
    /\ pc = "resolve"
    /\ \E pf \in PutFileLists :
        LET r == ScanPutFiles(pf, args_hosts_file) IN
        /\ put_files' = pf
        /\ found' = r.found
        /\ filename' = r.filename
        /\ AfterResolve(r.found)
    /\ UNCHANGED <<args_scope, args_scope_id, args_hosts_file, current_cid,
                   offset, hosts_all, total, batch_id, requests,
                   api_exact, inits, init_call, cmds>>

----------------------------------------------------------------------------
(* Host enumeration, lines 131-177 *)

LoopDoneStrict(have, t) == have > t

LoopDoneEarly(have, t) == have + 1 >= t

\* line 174: if len(hosts_all) >= int(total): break
LoopDone(have, t) == have >= t

FetchPage ==
    /\ pc = "enum"
    /\ \E t \in PageTotals, o \in Offsets :
       \E n \in PageSizes(t, HostsLen(hosts_all)) :
        /\ requests' = Min(requests + 1, MaxRequests)
        /\ offset' = o
        /\ total' = t
        /\ hosts_all' = IF n = 0 THEN hosts_all ELSE Append(hosts_all, n)
        /\ api_exact' = /\ api_exact
                        /\ n = Min(batch_size, Max(0, t - HostsLen(hosts_all)))
        /\ IF LoopDone(HostsLen(hosts_all'), t)
             THEN Goto("init_session")
             ELSE Goto("enum")
    /\ UNCHANGED <<args_scope, args_scope_id, args_hosts_file, current_cid,
                   put_files, found, filename, batch_id, inits, init_call, cmds>>

----------------------------------------------------------------------------
(* Batch session, lines 182-194 *)

InitArgsLastPage(h) ==
    [host_ids |-> IF h = <<>> THEN h ELSE <<h[Len(h)]>>, queue_offline |-> TRUE]

InitArgs(h) == [host_ids |-> h, queue_offline |-> TRUE]

AfterInitNoCheck(b) == Goto("cmd_cd")

\* line 191: if batch_id: ... else: raise SystemExit
AfterInit(b) ==
    IF b # <<>> THEN Goto("cmd_cd") ELSE Fatal("no_session")

InitSession ==
    /\ pc = "init_session"
    /\ \E b \in BatchIds :
        /\ inits' = inits + 1
        /\ init_call' = InitArgs(hosts_all)
        /\ batch_id' = b
        /\ AfterInit(b)
    /\ UNCHANGED <<args_scope, args_scope_id, args_hosts_file, current_cid,
                   put_files, found, filename, offset, hosts_all, total,
                   requests, api_exact, cmds>>

----------------------------------------------------------------------------
(* Command dispatch, lines 199-259 *)

RESPONDER == "batch_active_responder_command"
ADMIN == "batch_admin_command"

ETC_DIR == <<"c:\\windows\\system32\\drivers\\etc">>
ETC_HOSTS == <<"c:\\windows\\system32\\drivers\\etc\\hosts">>
\* "hosts." + utcnow().strftime("%Y-%m-%d-%H-%M-%S.backup")
BACKUP_NAME == <<"hosts.", "%Y-%m-%d-%H-%M-%S.backup">>

CD_COMMAND == <<(<<"cd">>), ETC_DIR>>
BACKUP_COMMAND == <<(<<"mv">>), HOSTS, BACKUP_NAME>>
PutCommand(name) == <<(<<"put">>), name>>
RenameCommand(name) == <<(<<"mv">>), name, HOSTS>>
ICACLS_COMMAND == <<(<<"run">>), <<"ICACLS">>, ETC_HOSTS, <<"/grant">>, <<"Users:RX">>>>
FLUSHDNS_COMMAND == <<(<<"run">>), <<"ipconfig">>, <<"/flushdns">>>>

StatusOkAny2xx(code) == code >= 200 /\ code < 300

\* if response["status_code"] == 201
StatusOk(code) == code = STATUS_CREATED

\* One guarded call.  On a non-201 status the else branch ends the process:
\* raise SystemExit(...) (or the exception raised while formatting its message).
Dispatch(api, base, command, next) ==
    \E code \in StatusCodes :
        /\ cmds' = Append(cmds, [api |-> api, batch_id |-> batch_id,
                                 base_command |-> base,
                                 command_string |-> command,
                                 status_code |-> code])
        /\ IF StatusOk(code) THEN Goto(next) ELSE Fatal("cmd_error")

NeedsRenameCaseSensitive(name) == name # HOSTS

\* line 227: if filename.lower() != "hosts"
NeedsRename(name) == lower(name) # HOSTS

CmdFrame ==
    UNCHANGED <<args_scope, args_scope_id, args_hosts_file, current_cid,
                put_files, found, filename, offset, hosts_all, total, batch_id,
                requests, api_exact, inits, init_call>>

CmdCdThenPut ==
    /\ pc = "cmd_cd"
    /\ Dispatch(RESPONDER, "cd", CD_COMMAND, "cmd_put")
    /\ CmdFrame

CmdCd ==
    /\ pc = "cmd_cd"
    /\ Dispatch(RESPONDER, "cd", CD_COMMAND, "cmd_backup")
    /\ CmdFrame

CmdBackup ==
    /\ pc = "cmd_backup"
    /\ Dispatch(RESPONDER, "mv", BACKUP_COMMAND, "cmd_put")
    /\ CmdFrame

CmdPut ==
    /\ pc = "cmd_put"
    /\ Dispatch(ADMIN, "put", PutCommand(filename),
                IF NeedsRename(filename) THEN "cmd_rename" ELSE "cmd_icacls")
    /\ CmdFrame

CmdRename ==
    /\ pc = "cmd_rename"
    /\ Dispatch(RESPONDER, "mv", RenameCommand(filename), "cmd_icacls")
    /\ CmdFrame

CmdIcacls ==
    /\ pc = "cmd_icacls"
    /\ Dispatch(ADMIN, "run", ICACLS_COMMAND, "cmd_flushdns")
    /\ CmdFrame

CmdFlushDns ==
    /\ pc = "cmd_flushdns"
    /\ Dispatch(ADMIN, "run", FLUSHDNS_COMMAND, "done")
    /\ CmdFrame

----------------------------------------------------------------------------
Next ==
    \/ CheckCid
    \/ ResolveFile
    \/ FetchPage
    \/ InitSession
    \/ CmdCd
    \/ CmdBackup
    \/ CmdPut
    \/ CmdRename
    \/ CmdIcacls
    \/ CmdFlushDns

Spec == Init /\ [][Next]_vars

\* main() is one sequential thread and every call returns: a step that can be
\* taken is eventually taken.
LiveSpec == Init /\ [][Next]_vars /\ WF_vars(Next)

----------------------------------------------------------------------------
(* Properties *)

IsPrefix(s, t) ==
    Len(s) <= Len(t) /\ \A i \in 1..Len(s) : s[i] = t[i]

Call(api, base, command) ==
    [api |-> api, base_command |-> base, command_string |-> command]

Issued ==
    [i \in 1..Len(cmds) |->
        Call(cmds[i].api, cmds[i].base_command, cmds[i].command_string)]

FixedOrder(name, rename) ==
    <<Call(RESPONDER, "cd", CD_COMMAND),
      Call(RESPONDER, "mv", BACKUP_COMMAND),
      Call(ADMIN, "put", PutCommand(name))>>
    \o (IF rename THEN <<Call(RESPONDER, "mv", RenameCommand(name))>> ELSE <<>>)
    \o <<Call(ADMIN, "run", ICACLS_COMMAND),
         Call(ADMIN, "run", FLUSHDNS_COMMAND)>>

Perms(s) ==
    { [i \in 1..Len(s) |-> s[f[i]]] : f \in Permutations(1..Len(s)) }

MatchingIndexes ==
    { i \in 1..Len(put_files) :
        lower(put_files[i].sha256) = lower(args_hosts_file) }

EnumFinished == requests > 0 /\ pc # "enum"

ResolutionDone ==
    pc \notin {"check_cid", "resolve"} /\ exit_msg # "cid_mismatch"

\* C1: if the Nth command call returns a status other than 201, exactly N
\* command calls have been made, the run is in the fatal-exit state and no
\* further step can be taken.
C1_HaltsAtFirstFailure ==
    \A n \in 1..Len(cmds) :
        cmds[n].status_code # 201 =>
            /\ Len(cmds) = n
            /\ pc = "fatal"
            /\ exit_msg = "cmd_error"
            /\ ~ENABLED Next

C1_Witness ==
    /\ Len(cmds) = 4
    /\ cmds[4].status_code = 200
    /\ pc = "fatal"

\* C2: the commands issued so far are a prefix of the fixed order cd, backup
\* mv, put, optional mv into place, ICACLS grant, flushdns; and a put is only
\* issued after the backup mv was issued and returned 201.
C2_FixedOrderPrefix ==
    /\ \/ IsPrefix(Issued, FixedOrder(filename, TRUE))
       \/ IsPrefix(Issued, FixedOrder(filename, FALSE))
    /\ \A i \in 1..Len(cmds) :
        cmds[i].base_command = "put" =>
            \E j \in 1..(i - 1) :
                /\ cmds[j].base_command = "mv"
                /\ cmds[j].command_string = BACKUP_COMMAND
                /\ cmds[j].status_code = 201

C2_Witness ==
    /\ pc = "done"
    /\ Len(cmds) = 6
    /\ cmds[3].base_command = "put"

\* C3: when no staged file's sha256 equals the --hosts_file hash (compared in
\* lower case), the run ends in a fatal exit with no page query, no
\* batch_init_sessions call and no batch command.
C3_NoMatchAbortsBeforeRemote ==
    (ResolutionDone /\ MatchingIndexes = {}) =>
        /\ pc = "fatal"
        /\ exit_msg = "hash_not_found"
        /\ requests = 0
        /\ inits = 0
        /\ cmds = <<>>

C3_Witness ==
    /\ exit_msg = "hash_not_found"
    /\ Len(put_files) = 2
    /\ pc = "fatal"

\* C4: with scope cid and a scope_id that differs, in lower case, from the
\* authenticated tenant id, the run aborts with no page query, no batch
\* session and no command; with scope hostgroup the tenant comparison never
\* aborts the run.
C4_TenantCheck ==
    /\ (/\ pc # "check_cid"
        /\ args_scope = SCOPE_CID
        /\ lower(args_scope_id) # lower(current_cid)) =>
            /\ pc = "fatal"
            /\ exit_msg = "cid_mismatch"
            /\ requests = 0
            /\ inits = 0
            /\ cmds = <<>>
    /\ args_scope = SCOPE_HOSTGROUP => exit_msg # "cid_mismatch"

C4_Witness ==
    /\ pc = "fatal"
    /\ exit_msg = "cid_mismatch"
    /\ args_scope_id = <<"c", "d">>
    /\ current_cid = <<"A", "B">>

\* C5 (as claimed): the loop finishes with exactly T identifiers after exactly
\* ceil(T/5000) page requests, whatever the page sizes.
C5_Original ==
    EnumFinished =>
        /\ HostsLen(hosts_all) = total
        /\ requests = CeilDiv(total, batch_size)

\* C5 (amended): the loop finishes with at least T identifiers after at least
\* max(1, ceil(T/5000)) page requests, T being the total of the last page; it
\* finishes with exactly T identifiers after exactly max(1, ceil(T/5000))
\* requests when every page reported the same total and was as full as the
\* remaining count allows.
C5_Amended ==
    EnumFinished =>
        /\ HostsLen(hosts_all) >= total
        /\ requests >= Max(1, CeilDiv(total, batch_size))
        /\ api_exact =>
            /\ HostsLen(hosts_all) = total
            /\ requests = Max(1, CeilDiv(total, batch_size))

C5_Witness ==
    /\ EnumFinished
    /\ api_exact
    /\ total = batch_size + 1
    /\ requests = 2
    /\ hosts_all = <<batch_size, 1>>

AfterEnum ==
    {"init_session", "cmd_cd", "cmd_backup", "cmd_put", "cmd_rename",
     "cmd_icacls", "cmd_flushdns", "done", "fatal"}

\* C6 (amended): each iteration leaves the loop exactly when the accumulated
\* count has reached the total of its page, otherwise it stays in the loop;
\* once the loop was left no page request is made again.  (Termination itself
\* is not guaranteed: pages that add nothing keep the loop running.)
C6_ExitsAtFirstCompletion ==
    [][ /\ pc = "enum" =>
            /\ pc' \in {"enum", "init_session"}
            /\ pc' = "init_session" <=> HostsLen(hosts_all') >= total'
        /\ pc \in AfterEnum =>
            /\ pc' # "enum"
            /\ requests' = requests
            /\ hosts_all' = hosts_all ]_vars

\* C6 (as claimed): for every sequence of page responses the loop eventually
\* exits.
C6_Original == (pc = "enum") ~> (pc # "enum")

C6_Witness ==
    /\ pc = "init_session"
    /\ requests = 2
    /\ HostsLen(hosts_all) = batch_size + 1
    /\ total = batch_size + 1

\* The next call after a successful put
AfterPut(P(_)) ==
    \A i \in 1..(Len(cmds) - 1) :
        (cmds[i].base_command = "put" /\ cmds[i].status_code = 201) =>
            IF P(filename)
              THEN /\ Issued[i + 1] = Call(RESPONDER, "mv", RenameCommand(filename))
                   /\ \A j \in 1..(i + 1) : cmds[j].base_command # "run"
              ELSE /\ Issued[i + 1] = Call(ADMIN, "run", ICACLS_COMMAND)
                   /\ \A j \in 1..Len(cmds) :
                        cmds[j].command_string # RenameCommand(filename)

DiffersFromHosts(name) == name # HOSTS
DiffersFromHostsIgnoringCase(name) == lower(name) # HOSTS

\* C7 (as claimed): after a successful put, `mv <filename> hosts` is issued
\* next, before any run command, if the filename differs from `hosts`, and
\* no such rename is issued if it equals `hosts`.
C7_Original == AfterPut(DiffersFromHosts)

\* C7 (amended): after a successful put, `mv <filename> hosts` is issued
\* next, before any run command, if the filename in lower case differs from
\* `hosts`, and no such rename is issued if it equals `hosts` in lower case.
C7_Amended == AfterPut(DiffersFromHostsIgnoringCase)

C7_Witness ==
    /\ pc = "done"
    /\ filename = <<"n", "e", "w">>
    /\ Len(cmds) = 6
    /\ cmds[4].command_string = RenameCommand(<<"n", "e", "w">>)

PutUsesMatchingFile(m) ==
    /\ found => \E i \in m : put_files[i].name = filename
    /\ \A i \in 1..Len(cmds) :
        cmds[i].base_command = "put" =>
            /\ found
            /\ cmds[i].command_string = PutCommand(filename)

\* C8 (as claimed): the filename put is the name of a staged file whose hash
\* matches in lower case, and the selected name is the same for every order
\* of the staged list.
C8_Original ==
    /\ PutUsesMatchingFile(MatchingIndexes)
    /\ found =>
        \A p \in Perms(put_files) :
            ScanPutFiles(p, args_hosts_file).filename = filename

\* C8 (amended): the filename put is the name of a staged file whose hash
\* matches in lower case, namely the last matching entry of the staged list;
\* when exactly one entry matches, the selected name is the same for every
\* order of the list.
C8_Amended ==
    LET m == MatchingIndexes IN
    /\ PutUsesMatchingFile(m)
    /\ found <=> m # {}
    /\ found =>
        /\ \E i \in m :
            /\ \A j \in m : j <= i
            /\ filename = put_files[i].name
        /\ Cardinality(m) = 1 =>
            \A p \in Perms(put_files) :
                ScanPutFiles(p, args_hosts_file).filename = filename

C8_Witness ==
    /\ pc = "cmd_put"
    /\ Cardinality(MatchingIndexes) = 2
    /\ filename = <<"n", "e", "w">>
    /\ put_files[1].name = HOSTS

\* C9: when batch_init_sessions returns an empty batch id the run ends in a
\* fatal exit and no remote command is ever issued.
C9_FailedInitIsFatal ==
    (inits > 0 /\ batch_id = <<>>) =>
        /\ pc = "fatal"
        /\ exit_msg = "no_session"
        /\ cmds = <<>>
        /\ ~ENABLED Next

C9_Witness ==
    /\ inits = 1
    /\ batch_id = <<>>
    /\ pc = "fatal"
    /\ HostsLen(hosts_all) > 0

\* C10: the batch session is created at most once, only after enumeration has
\* finished, with host_ids the complete accumulated host list and
\* queue_offline set; no command precedes it, every command carries the batch
\* id it returned, and host list and batch id stay as they were at that call.
C10_SingleBatchSession ==
    /\ inits <= 1
    /\ inits = 0 => cmds = <<>>
    /\ inits = 1 =>
        /\ pc \in AfterEnum \ {"init_session"}
        /\ EnumFinished
        /\ init_call = [host_ids |-> hosts_all, queue_offline |-> TRUE]
    /\ \A i \in 1..Len(cmds) : cmds[i].batch_id = batch_id /\ batch_id # <<>>

C10_Witness ==
    /\ pc = "done"
    /\ inits = 1
    /\ Len(hosts_all) = 2
    /\ batch_id = <<"b2">>
    /\ Len(cmds) = 5

====
